---- MODULE Spec2Model ----
(***************************************************************************)
(* A model of the Confluence REST client (lib/ConfluenceAPI.js and the     *)
(* resource modules under lib/resources): client construction, the         *)
(* register-then-invoke operations, the multipart attachment operations,   *)
(* the transport's completion events and the response normalizer           *)
(* processCallback.                                                        *)
(*                                                                         *)
(* Three specifications share the variables:                               *)
(*   SpecPC    the normalizer applied to every combination of inputs;      *)
(*   SpecCtor  construction applied to every config of ConfigSpace;        *)
(*   Spec      operation calls on a constructed client and the completion  *)
(*             of their requests.                                          *)
(***************************************************************************)
EXTENDS Integers, Sequences, FiniteSets, TLC

VARIABLES
    norm,     \* SpecPC: one application of processCallback (inputs, outcome)
    ctor,     \* SpecCtor: one construction attempt (inputs, outcome)
    client,   \* Spec: the constructed client (baseUrl, options, methods)
    calls     \* Spec: the operation calls made so far, in call order

vars == <<norm, ctor, client, calls>>

(***************************************************************************)
(* JavaScript values.  Every value is a record with the same fields so     *)
(* that values of different types can be compared: t is the type, v the    *)
(* text of a string (or the JSON text of an object), code and message the  *)
(* two fields of the object that processCallback synthesizes.              *)
(***************************************************************************)

\* `undefined` where a number is expected (res && res.statusCode with no res,
\* err.statusCode of an Error that has none); undefined > 300 is false.
NoStatus == -1

Undef == [t |-> "undefined", v |-> "", code |-> NoStatus, message |-> ""]

Null == [t |-> "null", v |-> "", code |-> NoStatus, message |-> ""]

Str(s) == [t |-> "string", v |-> s, code |-> NoStatus, message |-> ""]

Obj(json) == [t |-> "object", v |-> json, code |-> NoStatus, message |-> ""]

\* !x of the language: undefined, null and the empty string are falsy;
\* objects (the empty object included) and non-empty strings are truthy.
Falsy(x) == \/ x.t \in {"undefined", "null"}
            \/ x.t = "string" /\ x.v = ""

JsString_UndefinedEmpty(x) == IF x.t \in {"undefined", "null"} THEN "" ELSE x.v

\* String(x), as used when a value is spliced into a URL.
JsString(x) == CASE x.t = "undefined" -> "undefined"
                 [] x.t = "null"      -> "null"
                 [] x.t = "object"    -> "[object Object]"
                 [] OTHER             -> x.v

(***************************************************************************)
(* Errors and responses.                                                   *)
(***************************************************************************)

NullErr == [t |-> "null", message |-> "", statusCode |-> NoStatus]

UndefErr == [t |-> "undefined", message |-> "", statusCode |-> NoStatus]

Error(msg, sc) == [t |-> "Error", message |-> msg, statusCode |-> sc]

NoRes == [present |-> FALSE, statusCode |-> NoStatus, statusMessage |-> ""]

Res(sc, sm) == [present |-> TRUE, statusCode |-> sc, statusMessage |-> sm]

\* the reason phrases of the status codes the model uses
ReasonPhrase(sc) == CASE sc = 200 -> "OK"
                      [] sc = 204 -> "No Content"
                      [] sc = 300 -> "Multiple Choices"
                      [] sc = 301 -> "Moved Permanently"
                      [] sc = 404 -> "Not Found"
                      [] sc = 500 -> "Internal Server Error"
                      [] sc = 503 -> "Service Unavailable"
                      [] OTHER    -> "Status"

(***************************************************************************)
(* processCallback (lib/ConfluenceAPI.js).  The outcome is what the        *)
(* caller's callback cb received: n invocations, with arguments err, data. *)
(***************************************************************************)

\* var statusCode = res && res.statusCode;
StatusCodeOf(res) == IF res.present THEN res.statusCode ELSE NoStatus

\* var statusMessage = (res && res.statusMessage) || "Unknow Error";
StatusMessageOf(res) ==
    IF res.present /\ res.statusMessage # "" THEN res.statusMessage
    ELSE "Unknow Error"

WithDefaultStatus_Always500(err) == [err EXCEPT !.statusCode = 500]

\* if(!err.statusCode){ err.statusCode = 500; }
WithDefaultStatus(err) ==
    IF err.statusCode = NoStatus \/ err.statusCode = 0
    THEN [err EXCEPT !.statusCode = 500]
    ELSE err

IsErrorStatus_From400(statusCode) == statusCode >= 400

\* if(statusCode>300)
IsErrorStatus(statusCode) == statusCode > 300

SynthData_Never(data, statusCode, statusMessage) == data

SynthData_Always(data, statusCode, statusMessage) ==
    [t |-> "object", v |-> "{code,message}",
     code |-> statusCode, message |-> statusMessage]

\* if(!data){ data = {}; data.code = statusCode; data.message = statusMessage; }
SynthData(data, statusCode, statusMessage) ==
    IF Falsy(data)
    THEN [t |-> "object", v |-> "{code,message}",
          code |-> statusCode, message |-> statusMessage]
    ELSE data

Delivered(e, d) == [n |-> 1, err |-> e, data |-> d]

NotDelivered == [n |-> 0, err |-> UndefErr, data |-> Undef]

\* no application of processCallback is under way
NormIdle == [phase |-> "idle", err |-> NullErr, data |-> Undef, res |-> NoRes,
             out |-> NotDelivered]

processCallback_StatusFirst(err, data, res) ==
    IF IsErrorStatus(StatusCodeOf(res))
    THEN Delivered(Error(StatusMessageOf(res), StatusCodeOf(res)), Undef)
    ELSE IF err.t = "Error"
    THEN Delivered(WithDefaultStatus(err), Undef)
    ELSE Delivered(err, SynthData(data, StatusCodeOf(res), StatusMessageOf(res)))

processCallback_ErrorKeepsData(err, data, res) ==
    IF err.t = "Error"
    THEN Delivered(WithDefaultStatus(err), data)
    ELSE IF IsErrorStatus(StatusCodeOf(res))
    THEN Delivered(Error(StatusMessageOf(res), StatusCodeOf(res)), data)
    ELSE Delivered(err, SynthData(data, StatusCodeOf(res), StatusMessageOf(res)))

processCallback(err, data, res) ==
    IF err.t = "Error"
    THEN \* return cb(err);
         Delivered(WithDefaultStatus(err), Undef)
    ELSE IF IsErrorStatus(StatusCodeOf(res))
    THEN \* err = new Error(statusMessage); err.statusCode = statusCode; return cb(err);
         Delivered(Error(StatusMessageOf(res), StatusCodeOf(res)), Undef)
    ELSE \* cb(err, data);
         Delivered(err, SynthData(data, StatusCodeOf(res), StatusMessageOf(res)))

(***************************************************************************)
(* Construction (lib/ConfluenceAPI.js, function ConfluenceAPI).            *)
(***************************************************************************)

\* the resource catalog of lib/resources/index.js
Catalog == {"audit", "content", "contentbody", "group", "longtask",
            "relation", "search", "settings", "space", "template", "user"}

\* typeof clazz === 'function': every module of the catalog exports its
\* constructor function
ExportsFunction(propertyName) == propertyName \in Catalog

DefaultMimetypes ==
    Obj("{json:[application/json,application/json;charset=utf-8],xml:[application/xml,application/xml;charset=utf-8]}")

\* the config the caller passes: absent (undefined), or an object
NoOptions == [t |-> "undefined", user |-> Undef, password |-> Undef,
              baseUrl |-> Undef, mimetypes |-> Undef]

Options(u, p, b, m) == [t |-> "object", user |-> u, password |-> p,
                        baseUrl |-> b, mimetypes |-> m]

NoClient == [constructed |-> FALSE, baseUrl |-> Undef, options |-> NoOptions,
             resources |-> {}, methods |-> {}]

\* an outcome of a construction: the message of the Error thrown ("" when
\* nothing is thrown), the instance returned, and the caller's config object
\* as the construction leaves it
Thrown(msg, options) == [thrown |-> msg, instance |-> NoClient, options |-> options]

addResources_Unbound(instance) ==
    [instance EXCEPT !.resources = {<<n, "none">> : n \in Catalog}]

\* ConfluenceAPI.prototype.addResources: this[propertyName] = new clazz(client)
\* for every property of the catalog.  resources is the set of
\* <<property name, the client the resource holds>>.
addResources(instance) ==
    [instance EXCEPT !.resources = {<<n, "this">> : n \in Catalog}]

\* the else branch of addResources, new RESTFulResource(client), names a
\* constructor that lib/ConfluenceAPI.js does not import: it throws a
\* ReferenceError if a catalog entry is not a function
AddResourcesThrows == \E n \in Catalog : ~ExportsFunction(n)

Validate_BaseUrlInverted(options) ==
    IF options.t # "object"
    THEN "ConfluenceAPI module expects a config object."
    ELSE IF Falsy(options.user) \/ Falsy(options.password)
    THEN "ConfluenceAPI module expects a config object with both a user and password."
    ELSE IF ~Falsy(options.baseUrl)
    THEN "ConfluenceAPI module expects a config object with a baseUrl."
    ELSE ""

Validate_BaseUrlFirst(options) ==
    IF options.t # "object"
    THEN "ConfluenceAPI module expects a config object."
    ELSE IF Falsy(options.baseUrl)
    THEN "ConfluenceAPI module expects a config object with a baseUrl."
    ELSE IF Falsy(options.user) \/ Falsy(options.password)
    THEN "ConfluenceAPI module expects a config object with both a user and password."
    ELSE ""

\* the three checks of the constructor, in their order; "" when all pass
Validate(options) ==
    IF options.t # "object"
    THEN "ConfluenceAPI module expects a config object."
    ELSE IF Falsy(options.user) \/ Falsy(options.password)
    THEN "ConfluenceAPI module expects a config object with both a user and password."
    ELSE IF Falsy(options.baseUrl)
    THEN "ConfluenceAPI module expects a config object with a baseUrl."
    ELSE ""

WithMimetypes_Always(options) ==
    [options EXCEPT !.mimetypes = DefaultMimetypes]

\* if (!options.mimetypes){ options.mimetypes = {...} }
WithMimetypes(options) ==
    IF Falsy(options.mimetypes)
    THEN [options EXCEPT !.mimetypes = DefaultMimetypes]
    ELSE options

\* new ConfluenceAPI(options): validate, default the mimetypes,
\* RESTFulClient.call(this, options) (this.options = options,
\* this.methods = {}), addResources, this.baseUrl = options.baseUrl
NewConfluenceAPI(options) ==
    IF Validate(options) # ""
    THEN Thrown(Validate(options), options)
    ELSE IF AddResourcesThrows
    THEN Thrown("RESTFulResource is not defined", WithMimetypes(options))
    ELSE [thrown |-> "",
          instance |-> addResources([constructed |-> TRUE,
                                     baseUrl |-> options.baseUrl,
                                     options |-> WithMimetypes(options),
                                     resources |-> {}, methods |-> {}]),
          options |-> WithMimetypes(options)]

CallConfluenceAPI_NoReturn(options) ==
    LET r == NewConfluenceAPI(options)
    IN  IF r.thrown # "" THEN r ELSE [r EXCEPT !.instance = NoClient]

\* ConfluenceAPI(options) without new: this is not an instance, so the
\* function constructs one with new, adds the resources once more and
\* returns it
CallConfluenceAPI(options) ==
    LET r == NewConfluenceAPI(options)
    IN  IF r.thrown # "" THEN r
        ELSE [r EXCEPT !.instance = addResources(r.instance)]

\* ConfluenceAPI.create(options)
CreateConfluenceAPI(options) == NewConfluenceAPI(options)

(***************************************************************************)
(* SpecCtor: construction on every config of ConfigSpace, in each of the   *)
(* three ways of constructing.                                             *)
(***************************************************************************)

Users == {Undef, Str(""), Str("admin")}

Passwords == {Undef, Str(""), Str("123")}

BaseUrls == {Undef, Str(""), Str("https://x/wiki/rest/api")}

Mimetypes == {Undef, Obj("{json:[text/json]}")}

ConfigSpace == {NoOptions} \cup
               {Options(u, p, b, m) : u \in Users, p \in Passwords,
                                      b \in BaseUrls, m \in Mimetypes}

CtorIdle == [phase |-> "idle", mode |-> "", given |-> NoOptions,
             options |-> NoOptions, thrown |-> "", instance |-> NoClient]

InitCtor ==
    /\ ctor \in {[phase |-> "in", mode |-> "", given |-> o, options |-> o,
                  thrown |-> "", instance |-> NoClient] : o \in ConfigSpace}
    /\ norm = NormIdle
    /\ client = NoClient
    /\ calls = <<>>

Constructed(mode, r) ==
    /\ ctor' = [ctor EXCEPT !.phase = "out", !.mode = mode,
                            !.options = r.options, !.thrown = r.thrown,
                            !.instance = r.instance]
    /\ UNCHANGED <<norm, client, calls>>

\* var confluenceAPI = new ConfluenceAPI(options)
ConstructWithNew ==
    /\ ctor.phase = "in"
    /\ Constructed("new", NewConfluenceAPI(ctor.given))

\* var confluenceAPI = ConfluenceAPI(options)
ConstructWithoutNew ==
    /\ ctor.phase = "in"
    /\ Constructed("call", CallConfluenceAPI(ctor.given))

\* var confluenceAPI = ConfluenceAPI.create(options)
ConstructWithCreate ==
    /\ ctor.phase = "in"
    /\ Constructed("create", CreateConfluenceAPI(ctor.given))

NextCtor == ConstructWithNew \/ ConstructWithoutNew \/ ConstructWithCreate

SpecCtor == InitCtor /\ [][NextCtor]_vars

(***************************************************************************)
(* SpecPC: the normalizer on every combination of its inputs.              *)
(***************************************************************************)

\* the status codes a response may carry: success, the boundary 300,
\* a redirect, a client error and a server error
StatusCodes == {200, 204, 300, 301, 404, 500}

\* the transport's errors: an Error without a status code, and Errors to
\* which the transport attached one
TransportErrors == {Error("ECONNREFUSED", NoStatus),
                    Error("ETIMEDOUT", 503),
                    Error("EPROTO", 404)}

ErrInputs == {NullErr, UndefErr} \cup TransportErrors

\* a response carries its reason phrase, or an empty one when the server
\* sends a status line without reason phrase
ResInputs == {NoRes} \cup
             {Res(sc, sm) : sc \in StatusCodes, sm \in {""}} \cup
             {Res(sc, ReasonPhrase(sc)) : sc \in StatusCodes}

DataInputs == {Undef, Null, Str(""), Str("plain text"),
               Obj("{}"), Obj("{id:123}")}

InitPC ==
    /\ norm \in {[phase |-> "in", err |-> e, data |-> d, res |-> r,
                  out |-> NotDelivered] :
                    e \in ErrInputs, d \in DataInputs, r \in ResInputs}
    /\ ctor = CtorIdle
    /\ client = NoClient
    /\ calls = <<>>

\* client.processCallback(cb, err, data, res)
Normalize ==
    /\ norm.phase = "in"
    /\ norm' = [norm EXCEPT !.phase = "out",
                            !.out = processCallback(norm.err, norm.data, norm.res)]
    /\ UNCHANGED <<ctor, client, calls>>

NextPC == Normalize

SpecPC == InitPC /\ [][NextPC]_vars

(***************************************************************************)
(* URLs.  A URL or URL template is a sequence of pieces: literal text,     *)
(* a placeholder ${name}, or the literal text {name} (braces without the   *)
(* dollar sign), which the route registry does not treat as a placeholder. *)
(***************************************************************************)

Lit(s) == [k |-> "lit", s |-> s]

Ph(name) == [k |-> "ph", s |-> name]

Brace(name) == [k |-> "brace", s |-> name]

\* RESTFulResource.prototype.path: this.client.baseUrl + apiPath
path(c, apiPath) == <<Lit(JsString(c.baseUrl))>> \o apiPath

\* the first ${key} of url replaced by text
RECURSIVE ReplaceFirst(_, _, _)
ReplaceFirst(url, key, text) ==
    IF url = <<>> THEN <<>>
    ELSE IF Head(url) = Ph(key) THEN <<Lit(text)>> \o Tail(url)
    ELSE <<Head(url)>> \o ReplaceFirst(Tail(url), key, text)

\* the registered method resolves its URL from args.path: for every entry
\* of args.path, the first ${key} is replaced by the entry's value as a
\* string.  pathArgs is the sequence of <<key, value>> of args.path.
RECURSIVE parsePathParameters(_, _)
parsePathParameters(pathArgs, url) ==
    IF pathArgs = <<>> THEN url
    ELSE parsePathParameters(Tail(pathArgs),
             ReplaceFirst(url, Head(pathArgs)[1], JsString(Head(pathArgs)[2])))

registerMethod_ReplacesTable(methods, name, url, method) ==
    {[name |-> name, url |-> url, method |-> method]}

\* client.registerMethod(name, url, method): this.methods[name] is set anew
registerMethod(methods, name, url, method) ==
    {m \in methods : m.name # name} \cup
    {[name |-> name, url |-> url, method |-> method]}

Method_AnyEntry(methods, name) == CHOOSE m \in methods : TRUE

\* client.methods[name]
Method(methods, name) == CHOOSE m \in methods : m.name = name

OrEmpty_Identity(x) == x

\* params || {} and request || {}
OrEmpty(x) == IF Falsy(x) THEN Obj("{}") ELSE x

(***************************************************************************)
(* Requests and calls.                                                     *)
(***************************************************************************)

AcceptJson == {<<"Accept", "application/json">>}

MultipartHeaders == {<<"X-Atlassian-Token", "nocheck">>,
                     <<"Accept", "application/json">>,
                     <<"Content-Type", "multipart/form-data">>}

NoReq == [sent |-> FALSE, method |-> "", url |-> <<>>, parameters |-> Undef,
          data |-> Undef, formData |-> Undef, headers |-> {}]

Request(method, url, parameters, data, formData, headers) ==
    [sent |-> TRUE, method |-> method, url |-> url, parameters |-> parameters,
     data |-> data, formData |-> formData, headers |-> headers]

\* a call of an operation: the operation and the caller's arguments, how far
\* it has got ("inflight": request dispatched, completion pending; "done":
\* the completion handler has run; "threw": the call threw synchronously;
\* "crashed": the completion handler threw), the exception, the requests it
\* dispatched, the completion it was given and what the caller's cb received
Call(op, kind, pathArgs, params, body, state, thrown, req) ==
    [op |-> op, kind |-> kind, pathArgs |-> pathArgs, params |-> params,
     body |-> body, state |-> state, thrown |-> thrown, req |-> req,
     nreq |-> IF req.sent THEN 1 ELSE 0,
     err |-> NullErr, res |-> NoRes, raw |-> Undef, cb |-> NotDelivered]

\* the number of operation calls made on the client
MaxCalls == 2

CanCall == Len(calls) < MaxCalls

\* the args object of a JSON-route operation; an operation that sets no
\* parameters or no data leaves the field undefined
Args(pathArgs, parameters, data, headers) ==
    [path |-> pathArgs, parameters |-> parameters, data |-> data,
     headers |-> headers]

RegisterAndInvoke_ClearsBaseUrl(op, regName, template, verb, args, params, body) ==
    LET methods == registerMethod(client.methods, regName,
                                  path(client, template), verb)
        m == Method(methods, regName)
        req == Request(m.method, parsePathParameters(args.path, m.url),
                       args.parameters, args.data, Undef, args.headers)
    IN  /\ CanCall
        /\ client' = [client EXCEPT !.methods = methods, !.baseUrl = Str("")]
        /\ calls' = Append(calls, Call(op, "json", args.path, params, body,
                                       "inflight", "", req))
        /\ UNCHANGED <<norm, ctor>>

\* The register-then-invoke body shared by the JSON-route operations:
\*   client.registerMethod(regName, this.path(template), verb);
\*   client.methods.regName(args, function (data, response) {...})
\*         .on('error', function (err) {...});
\* params and body are the caller's arguments from which args was built.
RegisterAndInvoke(op, regName, template, verb, args, params, body) ==
    LET methods == registerMethod(client.methods, regName,
                                  path(client, template), verb)
        m == Method(methods, regName)
        req == Request(m.method, parsePathParameters(args.path, m.url),
                       args.parameters, args.data, Undef, args.headers)
    IN  /\ CanCall
        /\ client' = [client EXCEPT !.methods = methods]
        /\ calls' = Append(calls, Call(op, "json", args.path, params, body,
                                       "inflight", "", req))
        /\ UNCHANGED <<norm, ctor>>

\* The body shared by createAttachment and createOrUpdateAttachment:
\*   var options = {method, auth, url: this.path(...), headers, qs, formData};
\*   request(options, function (error, response, body) {...});
RequestMultipart(op, verb, url, pathArgs, params, form) ==
    /\ CanCall
    /\ calls' = Append(calls, Call(op, "multipart", pathArgs, params, form,
                           "inflight", "",
                           Request(verb, url, params, Undef, form,
                                   MultipartHeaders)))
    /\ UNCHANGED <<norm, ctor, client>>

(***************************************************************************)
(* The operations (lib/resources/content.js, lib/resources/relation.js).   *)
(***************************************************************************)

\* the caller's arguments
Ids == {Undef, Str("123")}

Params == {Null, Obj("{limit:10}")}

Forms == {Obj("{file,minorEdit}")}

RelationNames == {Str("like")}

EntityTypes == {Str("content")}

\* Content.prototype.getContent
getContent ==
    \E params \in Params :
        RegisterAndInvoke("getContent", "getContent", <<Lit("/content")>>, "GET",
            Args(<<>>, OrEmpty(params), Undef, AcceptJson), params, Undef)

\* Content.prototype.getContentById
getContentById ==
    \E id \in Ids, params \in {Null} :
        RegisterAndInvoke("getContentById", "getContentById",
            <<Lit("/content/"), Ph("id")>>, "GET",
            Args(<< <<"id", id>> >>, OrEmpty(params), Undef, AcceptJson),
            params, Undef)

\* Content.prototype.deleteContent
deleteContent ==
    \E id \in Ids, params \in Params :
        RegisterAndInvoke("deleteContent", "deleteContent",
            <<Lit("/content/"), Ph("id")>>, "DELETE",
            Args(<< <<"id", id>> >>, OrEmpty(params), Undef, AcceptJson),
            params, Undef)

\* Content.prototype.createAttachment
createAttachment ==
    \E id \in Ids, params \in {Null}, form \in Forms :
        RequestMultipart("createAttachment", "POST",
            path(client, <<Lit("/content/"), Lit(JsString(id)),
                           Lit("/child/attachment")>>),
            << <<"id", id>> >>, params, form)

\* Content.prototype.createOrUpdateAttachment
createOrUpdateAttachment ==
    \E id \in Ids, params \in {Null}, form \in Forms :
        RequestMultipart("createOrUpdateAttachment", "PUT",
            path(client, <<Lit("/content/"), Lit(JsString(id)),
                           Lit("/child/attachment")>>),
            << <<"id", id>> >>, params, form)

\* Content.prototype.updateAttachmentData: the options object names params
\* (qs: params), which is neither a parameter of the function nor a variable
\* in scope; evaluating it throws a ReferenceError before request is called
updateAttachmentData ==
    \E id \in Ids, attachmentId \in {Str("att7")}, form \in Forms :
        /\ CanCall
        /\ calls' = Append(calls,
               Call("updateAttachmentData", "multipart",
                    << <<"id", id>>, <<"attachmentId", attachmentId>> >>,
                    Undef, form, "threw", "ReferenceError", NoReq))
        /\ UNCHANGED <<norm, ctor, client>>

\* Content.prototype.removeLabelFromContentWithParam: args carries the
\* caller's bag under the key parameter; the registered method reads
\* args.parameters, which this operation leaves undefined
removeLabelFromContentWithParam ==
    \E id \in {Str("123")}, params \in Params :
        RegisterAndInvoke("removeLabelFromContentWithParam",
            "removeLabelFromContentWithParam",
            <<Lit("/content/"), Ph("id"), Lit("/label")>>, "DELETE",
            Args(<< <<"id", id>> >>, Undef, Undef, AcceptJson),
            params, Undef)

\* Relation.prototype.findRelatedEntitiesS2T
findRelatedEntitiesS2T ==
    \E relationName \in RelationNames, sourceKey \in Ids,
       sourceType \in EntityTypes, targetType \in EntityTypes,
       params \in {Null} :
        RegisterAndInvoke("findRelatedEntitiesS2T", "findRelatedEntitiesS2T",
            <<Lit("/relation/"), Ph("relationName"), Lit("/from/"),
              Ph("sourceType"), Lit("/"), Ph("sourceKey"), Lit("/to/"),
              Ph("targetType")>>, "GET",
            Args(<< <<"relationName", relationName>>, <<"sourceKey", sourceKey>>,
                    <<"sourceType", sourceType>>, <<"targetType", targetType>> >>,
                 OrEmpty(params), Undef, AcceptJson),
            params, Undef)

\* Relation.prototype.findRelatedEntitiesT2S: the template is written with
\* {name} where the other routes have ${name}
findRelatedEntitiesT2S ==
    \E relationName \in RelationNames, targetType \in EntityTypes,
       targetKey \in Ids, sourceType \in EntityTypes, params \in {Null} :
        RegisterAndInvoke("findRelatedEntitiesT2S", "findRelatedEntitiesT2S",
            <<Lit("/relation/"), Brace("relationName"), Lit("/to/"),
              Brace("targetType"), Lit("/"), Brace("targetKey"), Lit("/from/"),
              Brace("sourceType")>>, "GET",
            Args(<< <<"relationName", relationName>>, <<"targetType", targetType>>,
                    <<"targetKey", targetKey>>, <<"sourceType", sourceType>> >>,
                 OrEmpty(params), Undef, AcceptJson),
            params, Undef)

(***************************************************************************)
(* The transport's completions and the completion handlers.                *)
(***************************************************************************)

\* what the JSON-route transport hands to the response handler: the
\* response and the parsed body
Completions == {<<Res(200, "OK"), Obj("{id:123}")>>,
                <<Res(204, ""), Str("")>>,
                <<Res(404, "Not Found"), Obj("{message:gone}")>>}

\* what the multipart transport hands to its callback: the response and
\* the body as text
RawCompletions == {<<Res(200, "OK"), Str("{\"id\":123}")>>,
                   <<Res(204, ""), Str("")>>,
                   <<Res(404, "Not Found"), Str("<html>Not Found</html>")>>}

\* the error of a failed request
RequestErrors == {Error("ECONNREFUSED", NoStatus)}

\* JSON.parse(body) on the bodies above: the JSON text parses to its object;
\* the empty text and the HTML text make it throw a SyntaxError
JSONparse(body) ==
    IF body = Str("{\"id\":123}")
    THEN [ok |-> TRUE, value |-> Obj("{id:123}")]
    ELSE [ok |-> FALSE, value |-> Undef]

InFlight(i, kind) == /\ i \in 1..Len(calls)
                     /\ calls[i].state = "inflight"
                     /\ calls[i].kind = kind

Completed(i, e, r, raw, state, thrown, out) ==
    /\ calls' = [calls EXCEPT ![i].state = state, ![i].thrown = thrown,
                              ![i].err = e, ![i].res = r, ![i].raw = raw,
                              ![i].cb = out]
    /\ UNCHANGED <<norm, ctor, client>>

OnResponse_UndefinedErr(i) ==
    /\ InFlight(i, "json")
    /\ \E c \in Completions :
        Completed(i, UndefErr, c[1], c[2], "done", "",
                  processCallback(UndefErr, c[2], c[1]))

\* function (data, response) { client.processCallback(cb, null, data, response); }
OnResponse(i) ==
    /\ InFlight(i, "json")
    /\ \E c \in Completions :
        Completed(i, NullErr, c[1], c[2], "done", "",
                  processCallback(NullErr, c[2], c[1]))

\* .on('error', function (err) { client.processCallback(cb, err); })
OnError(i) ==
    /\ InFlight(i, "json")
    /\ \E e \in RequestErrors :
        Completed(i, e, NoRes, Undef, "done", "",
                  processCallback(e, Undef, NoRes))

\* function (error, response, body) with error null:
\*   client.processCallback(cb, null, JSON.parse(body), response);
OnRequestResponse(i) ==
    /\ InFlight(i, "multipart")
    /\ \E c \in RawCompletions :
        IF JSONparse(c[2]).ok
        THEN Completed(i, NullErr, c[1], c[2], "done", "",
                       processCallback(NullErr, JSONparse(c[2]).value, c[1]))
        ELSE Completed(i, NullErr, c[1], c[2], "crashed", "SyntaxError",
                       NotDelivered)

\* function (error, response, body) with an error:
\*   client.processCallback(cb, err);
\* err is not a variable in scope (the parameter is named error), so the
\* handler throws a ReferenceError and cb is not invoked
OnRequestError(i) ==
    /\ InFlight(i, "multipart")
    /\ \E e \in RequestErrors :
        Completed(i, e, NoRes, Undef, "crashed", "ReferenceError",
                  NotDelivered)

(***************************************************************************)
(* Operations of the other resources (space.js, audit.js, contentbody.js,  *)
(* template.js, search.js, group.js) and getContentDescendants.            *)
(***************************************************************************)

\* headers: { "Accept": "application/json", "Content-Type": "application/json" }
JsonBodyHeaders == {<<"Accept", "application/json">>,
                    <<"Content-Type", "application/json">>}

\* the caller's arguments
Bags == {Null, Undef, Obj("{}"), Obj("{limit:10}")}

Bodies == {Null, Obj("{}"), Obj("{name:S}")}

Keywords == {Str("test"), Str("a\"b")}

\* Space.prototype.updateSpace: data: request || {}, headers: Accept only
updateSpace ==
    \E spaceKey \in {Str("DEV")}, request \in Bodies :
        RegisterAndInvoke("updateSpace", "updateSpace",
            <<Lit("/space/"), Ph("spaceKey")>>, "PUT",
            Args(<< <<"spaceKey", spaceKey>> >>, Undef, OrEmpty(request),
                 AcceptJson),
            Undef, request)

\* Space.prototype.deleteSpaceProperty: no data, headers: Accept and
\* Content-Type
deleteSpaceProperty ==
    \E spaceKey \in {Str("DEV")}, key \in {Str("k")} :
        RegisterAndInvoke("deleteSpaceProperty", "deleteSpaceProperty",
            <<Lit("/space/"), Ph("spaceKey"), Lit("/property/"), Ph("key")>>,
            "DELETE",
            Args(<< <<"spaceKey", spaceKey>>, <<"key", key>> >>, Undef, Undef,
                 JsonBodyHeaders),
            Undef, Undef)

\* Audit.prototype.setRetentionPeriod: data: request || {}, headers: Accept
\* only
setRetentionPeriod ==
    \E request \in {Obj("{number:3}")} :
        RegisterAndInvoke("setRetentionPeriod", "setRetentionPeriod",
            <<Lit("/audit/retention")>>, "PUT",
            Args(<<>>, Undef, OrEmpty(request), AcceptJson),
            Undef, request)

\* Contentbody.prototype.convertTo: data: body || {}, headers: Accept and
\* Content-Type
convertTo ==
    \E to \in {Str("view")}, body \in {Undef, Obj("{}")} :
        RegisterAndInvoke("convertTo", "convertTo",
            <<Lit("/contentbody/convert/"), Ph("to")>>, "POST",
            Args(<< <<"to", to>> >>, Undef, OrEmpty(body), JsonBodyHeaders),
            Undef, body)

\* Template.prototype.getContentTemplate.  The property is assigned twice:
\* function(contentTemplateId, cb) on /template/${contentTemplateId}, then
\* function(params, cb) on /template/page, and the second assignment is the
\* function the property holds.  The caller's first argument is therefore
\* taken as params.
getContentTemplate ==
    \E contentTemplateId \in {Str("123")} :
        RegisterAndInvoke("getContentTemplate", "getContentTemplate",
            <<Lit("/template/page")>>, "GET",
            Args(<<>>, OrEmpty(contentTemplateId), Undef, AcceptJson),
            contentTemplateId, Undef)

Cql_NoStar(keyword) == "title ~ \"" \o JsString(keyword) \o "\""

\* "title ~ \""+keyword+"*\""
Cql(keyword) == "title ~ \"" \o JsString(keyword) \o "*\""

\* Search.prototype.quickSearch: var params = {cql: ...};
\* parameters: params || {}
quickSearch ==
    \E keyword \in Keywords :
        RegisterAndInvoke("quickSearch", "quickSearch", <<Lit("/search")>>,
            "GET",
            Args(<<>>, OrEmpty(Obj("{cql:" \o Cql(keyword) \o "}")), Undef,
                 AcceptJson),
            keyword, Undef)

\* Group.prototype.getGroups
getGroups ==
    \E params \in Bags :
        RegisterAndInvoke("getGroups", "getGroups", <<Lit("/group")>>, "GET",
            Args(<<>>, OrEmpty(params), Undef, AcceptJson), params, Undef)

getContentDescendants_RegistersResolved ==
    \E id \in {Str("123"), Str("456")}, params \in {Null} :
        RegisterAndInvoke("getContentDescendants", "getContentDescendantss",
            <<Lit("/content/"), Lit(JsString(id)), Lit("/descendant")>>, "GET",
            Args(<< <<"id", id>> >>, OrEmpty(params), Undef, AcceptJson),
            params, Undef)

\* Content.prototype.getContentDescendants: the route is registered and
\* invoked under the name getContentDescendantss
getContentDescendants ==
    \E id \in {Str("123"), Str("456")}, params \in {Null} :
        RegisterAndInvoke("getContentDescendants", "getContentDescendantss",
            <<Lit("/content/"), Ph("id"), Lit("/descendant")>>, "GET",
            Args(<< <<"id", id>> >>, OrEmpty(params), Undef, AcceptJson),
            params, Undef)

(***************************************************************************)
(* Spec: operation calls on a constructed client.                          *)
(***************************************************************************)

ValidConfig == Options(Str("admin"), Str("123"),
                       Str("https://x/wiki/rest/api"), Undef)

Init ==
    /\ client = NewConfluenceAPI(ValidConfig).instance
    /\ calls = <<>>
    /\ norm = NormIdle
    /\ ctor = CtorIdle

Next ==
    \/ getContent
    \/ getContentById
    \/ deleteContent
    \/ createAttachment
    \/ createOrUpdateAttachment
    \/ updateAttachmentData
    \/ removeLabelFromContentWithParam
    \/ findRelatedEntitiesS2T
    \/ findRelatedEntitiesT2S
    \/ \E i \in 1..MaxCalls : OnResponse(i)
    \/ \E i \in 1..MaxCalls : OnError(i)
    \/ \E i \in 1..MaxCalls : OnRequestResponse(i)
    \/ \E i \in 1..MaxCalls : OnRequestError(i)

Spec == Init /\ [][Next]_vars

(***************************************************************************)
(* SpecRoutes: calls of the operations of the other resources on a         *)
(* constructed client.                                                     *)
(***************************************************************************)

NextRoutes ==
    \/ updateSpace
    \/ deleteSpaceProperty
    \/ setRetentionPeriod
    \/ convertTo
    \/ getContentTemplate
    \/ quickSearch
    \/ getGroups
    \/ getContentDescendants
    \/ deleteContent
    \/ \E i \in 1..MaxCalls : OnResponse(i)
    \/ \E i \in 1..MaxCalls : OnError(i)

SpecRoutes == Init /\ [][NextRoutes]_vars

(***************************************************************************)
(* Properties of the normalizer (SpecPC).                                  *)
(***************************************************************************)

\* the callback received an error / received data
HasError(out) == out.err.t = "Error"

HasData(out) == out.data.t \notin {"undefined", "null"}

\* the normalizer has run on inputs without transport error and with a
\* response of the given status class
NoTransportError == norm.phase = "out" /\ norm.err.t # "Error"

SuccessStatus == norm.res.present /\ norm.res.statusCode >= 200
                                  /\ norm.res.statusCode < 300

\* the parsed body is empty or absent
EmptyBody == norm.data \in {Undef, Null, Str("")}

\* C1: for every combination of transport error, response, status code and
\* body, the callback is invoked with exactly one of (error, data): never
\* both and never neither.
C1_ExactlyOneOfErrorData ==
    norm.phase = "out" =>
        /\ norm.out.n = 1
        /\ HasError(norm.out) # HasData(norm.out)

\* a transport error arrived together with a response and a body
C1_Witness ==
    /\ norm.phase = "out"
    /\ norm.err.t = "Error" /\ norm.res.present /\ norm.data.t = "object"
    /\ HasError(norm.out) /\ ~HasData(norm.out)

\* C3 as stated: with no transport error and a status above 300 the callback
\* receives an error with the response's status code and its reason phrase
\* as message, and no data.
C3_ErrorCarriesReasonPhrase ==
    (NoTransportError /\ norm.res.present /\ norm.res.statusCode > 300) =>
        /\ HasError(norm.out)
        /\ norm.out.err.statusCode = norm.res.statusCode
        /\ norm.out.err.message = norm.res.statusMessage
        /\ norm.out.data = Undef

\* C3 amended: the message is the reason phrase when the response has one
\* and the text "Unknow Error" when its reason phrase is empty.
C3_ErrorCarriesReasonPhraseOrFallback ==
    (NoTransportError /\ norm.res.present /\ norm.res.statusCode > 300) =>
        /\ norm.out.n = 1
        /\ HasError(norm.out)
        /\ norm.out.err.statusCode = norm.res.statusCode
        /\ norm.out.err.message = IF norm.res.statusMessage # ""
                                  THEN norm.res.statusMessage
                                  ELSE "Unknow Error"
        /\ norm.out.data = Undef

\* a 301 redirect with a body and without reason phrase came out as an error
C3_Witness ==
    /\ NoTransportError
    /\ norm.res = Res(301, "") /\ norm.data.t = "object"
    /\ norm.out.err = Error("Unknow Error", 301)

\* C4: a transport error is delivered as the error, with statusCode 500 when
\* it carried none and with its own status code otherwise; no data.
C4_TransportErrorDefaults500 ==
    (norm.phase = "out" /\ norm.err.t = "Error") =>
        /\ norm.out.n = 1
        /\ norm.out.err.t = "Error"
        /\ norm.out.err.message = norm.err.message
        /\ norm.out.err.statusCode = IF norm.err.statusCode = NoStatus
                                     THEN 500
                                     ELSE norm.err.statusCode
        /\ norm.out.data = Undef

\* an error that carried 503 kept it, although a 200 response was passed too
C4_Witness ==
    /\ norm.phase = "out"
    /\ norm.err = Error("ETIMEDOUT", 503) /\ norm.res = Res(200, "OK")
    /\ norm.out.err.statusCode = 503

\* C5 as stated: success status and empty or absent body give
\* data = {code: status code, message: reason phrase}.
C5_EmptyBodySynthesized ==
    (NoTransportError /\ SuccessStatus /\ EmptyBody) =>
        /\ ~HasError(norm.out)
        /\ norm.out.data.t = "object"
        /\ norm.out.data.code = norm.res.statusCode
        /\ norm.out.data.message = norm.res.statusMessage

\* C5 amended: the message is the reason phrase when the response has one
\* and the text "Unknow Error" when its reason phrase is empty.
C5_EmptyBodySynthesizedOrFallback ==
    (NoTransportError /\ SuccessStatus /\ EmptyBody) =>
        /\ norm.out.n = 1
        /\ ~HasError(norm.out)
        /\ norm.out.data.t = "object"
        /\ norm.out.data.code = norm.res.statusCode
        /\ norm.out.data.message = IF norm.res.statusMessage # ""
                                   THEN norm.res.statusMessage
                                   ELSE "Unknow Error"

\* a 204 No Content response with an empty body
C5_Witness ==
    /\ NoTransportError
    /\ norm.res = Res(204, "No Content") /\ norm.data = Str("")
    /\ norm.out.data.code = 204 /\ norm.out.data.message = "No Content"

\* C6: success status and a non-empty body deliver the parsed body itself,
\* unchanged, and no error.
C6_BodyPassedThrough ==
    (NoTransportError /\ SuccessStatus /\ ~EmptyBody) =>
        /\ norm.out.n = 1
        /\ ~HasError(norm.out)
        /\ norm.out.data = norm.data

\* a 200 response with a JSON object as body
C6_Witness ==
    /\ NoTransportError
    /\ norm.res = Res(200, "OK") /\ norm.data = Obj("{id:123}")
    /\ norm.out.data = Obj("{id:123}")

(***************************************************************************)
(* Properties of construction (SpecCtor).                                  *)
(***************************************************************************)

MsgNoConfig == "ConfluenceAPI module expects a config object."

MsgNoAuth == "ConfluenceAPI module expects a config object with both a user and password."

MsgNoBaseUrl == "ConfluenceAPI module expects a config object with a baseUrl."

\* a config field is absent: not given, or given as the empty string
Absent(x) == x \in {Undef, Str("")}

C10_ValidConfigConstructs ==
    ctor.phase = "out" =>
        /\ (/\ ctor.given.t = "object"
            /\ ~Absent(ctor.given.user) /\ ~Absent(ctor.given.password)
            /\ ~Absent(ctor.given.baseUrl))
                => /\ ctor.thrown = ""
                   /\ ctor.instance.constructed
                   /\ ctor.instance.baseUrl = ctor.given.baseUrl
        /\ ctor.thrown # "" =>
                /\ ctor.thrown \in {MsgNoConfig, MsgNoAuth, MsgNoBaseUrl}
                /\ \/ ctor.given.t # "object"
                   \/ Absent(ctor.given.user) \/ Absent(ctor.given.password)
                   \/ Absent(ctor.given.baseUrl)

\* a valid config without mimetypes, constructed without new
C10_Witness ==
    /\ ctor.phase = "out" /\ ctor.mode = "call"
    /\ ctor.given = Options(Str("admin"), Str("123"),
                            Str("https://x/wiki/rest/api"), Undef)
    /\ ctor.instance.constructed
    /\ {r[1] : r \in ctor.instance.resources} = Catalog

(***************************************************************************)
(* Properties of the operation calls (Spec).                               *)
(***************************************************************************)

CallIds == 1..Len(calls)

\* the call has run to its end: its completion handler has run, or the
\* call or its handler threw
Finished(i) == calls[i].state \in {"done", "threw", "crashed"}

\* the value the caller passed for the path identifier key
ArgOf(pathArgs, key) ==
    LET k == CHOOSE k \in 1..Len(pathArgs) : pathArgs[k][1] = key
    IN  pathArgs[k][2]

\* a path identifier was omitted in the call
OmitsPathId(i) == \E k \in 1..Len(calls[i].pathArgs) :
                      calls[i].pathArgs[k][2] = Undef

\* the text that stands for a value in a URL
TextOf(x) == IF x = Undef THEN "undefined" ELSE x.v

\* the URL of the operation's route: baseUrl followed by the path template
\* of the route table with every placeholder replaced by its identifier
RouteUrl(op, a) ==
    LET base == Lit(ValidConfig.baseUrl.v)
        id(key) == Lit(TextOf(ArgOf(a, key)))
    IN  CASE op = "getContent" -> <<base, Lit("/content")>>
          [] op \in {"getContentById", "deleteContent"} ->
                <<base, Lit("/content/"), id("id")>>
          [] op = "removeLabelFromContentWithParam" ->
                <<base, Lit("/content/"), id("id"), Lit("/label")>>
          [] op \in {"createAttachment", "createOrUpdateAttachment"} ->
                <<base, Lit("/content/"), id("id"), Lit("/child/attachment")>>
          [] op = "updateAttachmentData" ->
                <<base, Lit("/content/"), id("id"), Lit("/child/attachment/"),
                  id("attachmentId"), Lit("/data")>>
          [] op = "findRelatedEntitiesS2T" ->
                <<base, Lit("/relation/"), id("relationName"), Lit("/from/"),
                  id("sourceType"), Lit("/"), id("sourceKey"), Lit("/to/"),
                  id("targetType")>>
          [] op = "findRelatedEntitiesT2S" ->
                <<base, Lit("/relation/"), id("relationName"), Lit("/to/"),
                  id("targetType"), Lit("/"), id("targetKey"), Lit("/from/"),
                  id("sourceType")>>

\* no placeholder is left in the URL
Resolved(url) == \A k \in 1..Len(url) : url[k].k = "lit"

\* C2: every operation call invokes the caller's callback exactly once,
\* whether the transport delivers a response or raises an error: never
\* twice, and once the transport has completed the call's request not zero
\* times.
C2_CallbackExactlyOnce ==
    \A i \in CallIds :
        /\ calls[i].cb.n <= 1
        /\ (calls[i].req.sent /\ Finished(i)) => calls[i].cb.n = 1

Dispatching == {"getContent", "getContentById", "deleteContent",
                "removeLabelFromContentWithParam",
                "createAttachment", "createOrUpdateAttachment",
                "findRelatedEntitiesS2T", "findRelatedEntitiesT2S"}

\* the operations whose route is resolved from the caller's identifiers
Substituting == Dispatching \ {"findRelatedEntitiesT2S"}

C8_UrlFullyResolved ==
    \A i \in CallIds :
        (calls[i].req.sent /\ ~OmitsPathId(i)) =>
            /\ Resolved(calls[i].req.url)
            /\ calls[i].req.url = RouteUrl(calls[i].op, calls[i].pathArgs)

(***************************************************************************)
(* Properties of the multipart operations and of dispatch (Spec).          *)
(***************************************************************************)

MultipartOps == {"createAttachment", "createOrUpdateAttachment",
                 "updateAttachmentData"}

\* the transport completed the call's request with an error
TransportFailed(i) == Finished(i) /\ calls[i].req.sent /\ calls[i].err.t = "Error"

\* the transport completed the call's request with a response
TransportResponded(i) == Finished(i) /\ calls[i].req.sent /\ calls[i].res.present

\* C11: a transport failure of a multipart attachment operation reaches the
\* caller's callback as an error with statusCode 500, or with the status
\* code the transport attached; nothing is thrown and the error is not lost.
C11_MultipartFailureDelivered ==
    \A i \in CallIds :
        (calls[i].op \in MultipartOps /\ TransportFailed(i)) =>
            /\ calls[i].thrown = ""
            /\ calls[i].cb.n = 1
            /\ calls[i].cb.err.t = "Error"
            /\ calls[i].cb.err.message = calls[i].err.message
            /\ calls[i].cb.err.statusCode =
                   IF calls[i].err.statusCode = NoStatus THEN 500
                   ELSE calls[i].err.statusCode
            /\ calls[i].cb.data = Undef

\* the body of a multipart response as the normalizer is to see it: the
\* parsed document of a JSON body, the body itself otherwise
BodyValue(raw) == IF JSONparse(raw).ok THEN JSONparse(raw).value ELSE raw

\* C12: for every response, whatever its status and whether its body is
\* JSON, empty or something else, a multipart operation hands its callback
\* what the shared normalizer prescribes for that status and body.
C12_MultipartNormalizedLikeJson ==
    \A i \in CallIds :
        (calls[i].op \in MultipartOps /\ TransportResponded(i)) =>
            /\ calls[i].thrown = ""
            /\ calls[i].cb = processCallback(NullErr, BodyValue(calls[i].raw),
                                             calls[i].res)

\* C13: every operation call dispatches exactly one request, and no second
\* one after its completion, be it an error or an error status.
C13_ExactlyOneRequest ==
    \A i \in CallIds :
        /\ calls[i].req.sent
        /\ calls[i].nreq = 1

(***************************************************************************)
(* Properties of concurrent calls and of the client's state (Spec).        *)
(***************************************************************************)

\* the verb of the operation's route
Verb(op) ==
    CASE op \in {"getContent", "getContentById", "findRelatedEntitiesS2T",
                 "findRelatedEntitiesT2S"} -> "GET"
      [] op \in {"deleteContent", "removeLabelFromContentWithParam"} -> "DELETE"
      [] op = "createAttachment" -> "POST"
      [] op \in {"createOrUpdateAttachment", "updateAttachmentData"} -> "PUT"

\* the URL the call's own route and arguments give: the resolved route, or
\* for findRelatedEntitiesT2S, whose template is sent as it is written, the
\* template of its own route
OwnUrl(i) ==
    IF calls[i].op = "findRelatedEntitiesT2S"
    THEN <<Lit(ValidConfig.baseUrl.v), Lit("/relation/"),
           Brace("relationName"), Lit("/to/"), Brace("targetType"), Lit("/"),
           Brace("targetKey"), Lit("/from/"), Brace("sourceType")>>
    ELSE RouteUrl(calls[i].op, calls[i].pathArgs)

\* the completion of the call's own request, as the normalizer is given it
OwnResult(i) ==
    IF calls[i].err.t = "Error"
    THEN processCallback(calls[i].err, Undef, NoRes)
    ELSE processCallback(NullErr,
                         IF calls[i].kind = "multipart"
                         THEN BodyValue(calls[i].raw) ELSE calls[i].raw,
                         calls[i].res)

\* C14: in every interleaving of calls on one client, each call's request
\* has the verb, the URL, the form and the headers of its own route and
\* arguments, two calls with the same operation and arguments dispatch the
\* same request whatever was registered in between, and what a callback
\* receives is the normalized completion of its own request.
C14_CallsDoNotInterfere ==
    /\ \A i \in CallIds :
        /\ calls[i].req.sent =>
            /\ calls[i].req.method = Verb(calls[i].op)
            /\ calls[i].req.url = OwnUrl(i)
            /\ calls[i].req.formData =
                   IF calls[i].kind = "multipart" THEN calls[i].body ELSE Undef
            /\ calls[i].req.parameters \in
                   {Undef, calls[i].params, OrEmpty(calls[i].params)}
        /\ calls[i].cb.n = 1 => calls[i].cb = OwnResult(i)
    /\ \A i, j \in CallIds :
        (/\ calls[i].op = calls[j].op
         /\ calls[i].pathArgs = calls[j].pathArgs
         /\ calls[i].params = calls[j].params
         /\ calls[i].body = calls[j].body)
            => calls[i].req = calls[j].req

\* two deleteContent calls with different query bags were in flight together
\* and the later one has completed first
C14_Witness ==
    /\ Len(calls) = 2
    /\ calls[1].op = "deleteContent" /\ calls[2].op = "deleteContent"
    /\ calls[1].params = Null /\ calls[2].params = Obj("{limit:10}")
    /\ calls[1].state = "inflight" /\ calls[2].state = "done"
    /\ calls[2].cb.data = Obj("{id:123}")
    /\ calls[2].req.parameters = Obj("{limit:10}")

\* the client as construction returned it
Constructed0 == NewConfluenceAPI(ValidConfig).instance

Names(methods) == {m.name : m \in methods}

\* C15 (as stated): no operation call modifies any state of the client, its
\* registered-method table included.
C15_CallsModifyNoClientState == [][client' = client]_vars

\* C15 (amended): the registered-method table is state that calls share and
\* modify: a JSON-route call writes the entry of its own route name, which it
\* then invokes, and leaves every other entry, the configuration, the base
\* URL and the resources as they were; a multipart call and a completion
\* leave the whole client as it was.
C15_CallsWriteOnlyTheirOwnRoute ==
    [][/\ client'.baseUrl = client.baseUrl
       /\ client'.options = client.options
       /\ client'.resources = client.resources
       /\ client'.constructed = client.constructed
       /\ IF Len(calls') > Len(calls) /\ calls'[Len(calls')].kind = "json"
          THEN LET c == calls'[Len(calls')]
               IN  /\ \E m \in client'.methods :
                        /\ m.name = c.op
                        /\ m.method = c.req.method
                        /\ {n \in client'.methods : n.name = c.op} = {m}
                   /\ {n \in client'.methods : n.name # c.op} =
                      {n \in client.methods : n.name # c.op}
          ELSE client'.methods = client.methods]_vars

\* two calls of different JSON routes have each left their entry in the table
C15_Witness ==
    /\ Len(calls) = 2
    /\ calls[1].op = "getContent" /\ calls[2].op = "getContentById"
    /\ Names(client.methods) = {"getContent", "getContentById"}
    /\ Constructed0.methods = {}

\* C16: after any sequence of operation calls and completed callbacks, the
\* base URL, the user, the password and the mimetypes of the client are the
\* ones construction returned.
C16_ConfigurationNeverChanges ==
    /\ client.baseUrl = Constructed0.baseUrl
    /\ client.options = Constructed0.options
    /\ client.options = WithMimetypes(ValidConfig)
    /\ client.baseUrl = ValidConfig.baseUrl

\* two calls have been made, one through a registered route, and both
\* callbacks have been delivered
C16_Witness ==
    /\ Len(calls) = 2
    /\ \A i \in CallIds : calls[i].state = "done" /\ calls[i].cb.n = 1
    /\ calls[1].kind = "json" /\ calls[2].kind = "multipart"
    /\ client.methods # {}
    /\ client.options.mimetypes = DefaultMimetypes

\* the request of call i completed without transport error and with a
\* status the normalizer takes as success
Succeeded(i) ==
    /\ Finished(i)
    /\ calls[i].err.t # "Error"
    /\ calls[i].res.present
    /\ ~IsErrorStatus(calls[i].res.statusCode)

IsValidConfig(o) == /\ o.t = "object"
                    /\ ~Absent(o.user) /\ ~Absent(o.password)
                    /\ ~Absent(o.baseUrl)

ResourceNames(instance) == {r[1] : r \in instance.resources}

\* every resource of the instance holds the instance as its client
BoundToInstance(instance) == \A r \in instance.resources : r[2] = "this"

\* C18: for every valid config, ConfluenceAPI(config), new
\* ConfluenceAPI(config) and ConfluenceAPI.create(config) each return an
\* instance, and the instance is the same whichever way it was constructed:
\* the config's baseUrl, the resource properties of the catalog, every
\* resource bound to the returned instance.
C18_ThreeWaysEquivalent ==
    (ctor.phase = "out" /\ IsValidConfig(ctor.given)) =>
        /\ ctor.mode \in {"new", "call", "create"}
        /\ ctor.thrown = ""
        /\ ctor.instance.constructed
        /\ ctor.instance.baseUrl = ctor.given.baseUrl
        /\ ResourceNames(ctor.instance) = Catalog
        /\ BoundToInstance(ctor.instance)
        /\ ctor.instance = NewConfluenceAPI(ctor.given).instance
        /\ ctor.options = NewConfluenceAPI(ctor.given).options

\* a valid config with its own mimetypes, constructed without new
C18_Witness ==
    /\ ctor.phase = "out" /\ ctor.mode = "call"
    /\ ctor.given = Options(Str("admin"), Str("123"),
                            Str("https://x/wiki/rest/api"),
                            Obj("{json:[text/json]}"))
    /\ ctor.instance.constructed
    /\ ctor.instance.options.mimetypes = Obj("{json:[text/json]}")
    /\ BoundToInstance(ctor.instance)

\* resource.path(p) of the resource under propertyName: this.client.baseUrl + p
ResourcePath(instance, propertyName, p) ==
    LET r == CHOOSE r \in instance.resources : r[1] = propertyName
    IN  IF r[2] = "this" THEN path(instance, p) ELSE path(NoClient, p)

\* C19: every successfully constructed client has exactly one resource
\* under each catalog name, each resource holds that client, and
\* resource.path(p) is the client's baseUrl followed by p.
C19_ResourcesExposedAndBound ==
    (ctor.phase = "out" /\ ctor.thrown = "") =>
        /\ ctor.instance.constructed
        /\ ResourceNames(ctor.instance) =
               {"audit", "content", "contentbody", "group", "longtask",
                "relation", "search", "settings", "space", "template", "user"}
        /\ Cardinality(ctor.instance.resources) =
               Cardinality(ResourceNames(ctor.instance))
        /\ \A n \in ResourceNames(ctor.instance) :
               /\ <<n, "this">> \in ctor.instance.resources
               /\ ResourcePath(ctor.instance, n, <<Lit("/content")>>) =
                      <<Lit(ctor.given.baseUrl.v), Lit("/content")>>

\* a client constructed with ConfluenceAPI.create whose contentbody resource
\* resolves its paths against the client's baseUrl
C19_Witness ==
    /\ ctor.phase = "out" /\ ctor.mode = "create" /\ ctor.thrown = ""
    /\ <<"contentbody", "this">> \in ctor.instance.resources
    /\ ResourcePath(ctor.instance, "contentbody", <<Lit("/contentbody/convert")>>) =
           <<Lit("https://x/wiki/rest/api"), Lit("/contentbody/convert")>>

(***************************************************************************)
(* Properties of the query parameters (Spec).                              *)
(***************************************************************************)

\* the caller passed a query-parameter bag
PassesQuery(i) == calls[i].params.t = "object"

\* C20: when the caller passes a query-parameter bag, the request is
\* dispatched with that bag as its query parameters, with the verb of the
\* operation and the URL of its route.
C20_QueryParametersAttached ==
    \A i \in CallIds :
        (calls[i].req.sent /\ PassesQuery(i)) =>
            /\ calls[i].req.parameters = calls[i].params
            /\ calls[i].req.method = Verb(calls[i].op)
            /\ calls[i].op \in Substituting =>
                   calls[i].req.url = RouteUrl(calls[i].op, calls[i].pathArgs)

(***************************************************************************)
(* Properties of the operations of the other resources (SpecRoutes).       *)
(***************************************************************************)

\* the request carries a body object
SendsBody(i) == calls[i].req.data # Undef

HasContentType(i) == \E h \in calls[i].req.headers : h[1] = "Content-Type"

\* C21: a request that carries a body object has the header
\* Content-Type: application/json, and a request with neither body nor form
\* has no Content-Type header.
C21_ContentTypeIffBody ==
    \A i \in CallIds :
        calls[i].req.sent =>
            /\ SendsBody(i) =>
                   <<"Content-Type", "application/json">> \in calls[i].req.headers
            /\ (~SendsBody(i) /\ calls[i].req.formData = Undef) =>
                   ~HasContentType(i)

(***************************************************************************)
(* Further properties of the normalizer (SpecPC).                          *)
(***************************************************************************)

\* C22: with no transport error, a response with a 3xx, 4xx or 5xx status is
\* delivered as an error and never as data, and whatever is delivered as
\* success had a 2xx status.
C22_Non2xxIsError ==
    (NoTransportError /\ norm.res.present) =>
        /\ norm.res.statusCode >= 300 =>
               HasError(norm.out) /\ ~HasData(norm.out)
        /\ ~HasError(norm.out) => SuccessStatus

\* the data is the object the normalizer makes for an empty body
Synthesized(out) == out.data.t = "object" /\ out.data.v = "{code,message}"

\* C28: the branches are taken in the order transport error, status code,
\* empty body: a transport error is the result whatever the status and the
\* body are; without one, a status above 300 gives an error whether or not
\* there is a body; the {code, message} object is made only when neither
\* applies and the body is empty.
C28_BranchPriority ==
    norm.phase = "out" =>
        /\ norm.err.t = "Error" =>
               /\ HasError(norm.out)
               /\ norm.out.err.message = norm.err.message
               /\ ~HasData(norm.out)
        /\ (norm.err.t # "Error" /\ norm.res.present
                                 /\ norm.res.statusCode > 300) =>
               /\ HasError(norm.out)
               /\ norm.out.err.statusCode = norm.res.statusCode
               /\ ~HasData(norm.out)
        /\ Synthesized(norm.out) =>
               /\ norm.err.t # "Error"
               /\ ~(norm.res.present /\ norm.res.statusCode > 300)
               /\ EmptyBody

\* a transport error arrived with a 404 response and a body: the result is
\* the transport error, not the 404
C28_Witness ==
    /\ norm.phase = "out"
    /\ norm.err = Error("ECONNREFUSED", NoStatus)
    /\ norm.res = Res(404, "Not Found") /\ norm.data = Obj("{id:123}")
    /\ norm.out.err = Error("ECONNREFUSED", 500)
    /\ norm.out.data = Undef

(***************************************************************************)
(* Further properties of construction (SpecCtor).                          *)
(***************************************************************************)

\* C23: a successful construction sets the default mimetypes on the
\* caller's config exactly when the config has none and keeps mimetypes the
\* caller supplied; every other field of the caller's config is as the
\* caller passed it, whether construction succeeds or throws.
C23_DefaultMimetypesOnlyWhenAbsent ==
    ctor.phase = "out" =>
        /\ ctor.thrown = "" =>
               /\ ctor.given.mimetypes = Undef =>
                      ctor.options.mimetypes = DefaultMimetypes
               /\ ctor.given.mimetypes # Undef =>
                      ctor.options.mimetypes = ctor.given.mimetypes
               /\ ctor.instance.options = ctor.options
        /\ ctor.thrown # "" => ctor.options = ctor.given
        /\ ctor.options.t = ctor.given.t
        /\ ctor.options.user = ctor.given.user
        /\ ctor.options.password = ctor.given.password
        /\ ctor.options.baseUrl = ctor.given.baseUrl

\* a valid config without mimetypes, constructed with new, has the defaults
\* afterwards and its other fields as before
C23_Witness ==
    /\ ctor.phase = "out" /\ ctor.mode = "new" /\ ctor.thrown = ""
    /\ ctor.given.mimetypes = Undef
    /\ ctor.options.mimetypes = DefaultMimetypes
    /\ ctor.options.user = Str("admin")

\* C27: a config that has a baseUrl and neither user nor password
\* constructs a client.
C27_UserAndPasswordOptional ==
    (/\ ctor.phase = "out"
     /\ ctor.given.t = "object"
     /\ ~Absent(ctor.given.baseUrl)
     /\ Absent(ctor.given.user) /\ Absent(ctor.given.password)) =>
        /\ ctor.thrown = ""
        /\ ctor.instance.constructed

(***************************************************************************)
(* Properties of single operations (SpecRoutes, Spec).                     *)
(***************************************************************************)

\* C24: template.getContentTemplate(contentTemplateId, cb) dispatches
\* GET <baseUrl>/template/<contentTemplateId>.  (The call's first argument
\* is recorded as params, the name the function gives it.)
C24_GetContentTemplateById ==
    \A i \in CallIds :
        (calls[i].op = "getContentTemplate" /\ calls[i].req.sent) =>
            /\ calls[i].req.method = "GET"
            /\ calls[i].req.url = <<Lit(ValidConfig.baseUrl.v),
                                    Lit("/template/"),
                                    Lit(TextOf(calls[i].params))>>

\* C25: content.updateAttachmentData(id, attachmentId, form, cb) does not
\* throw, dispatches exactly one multipart request to
\* <baseUrl>/content/<id>/child/attachment/<attachmentId>/data with the
\* form, and delivers one result to cb once the request has completed.
C25_UpdateAttachmentDataDispatches ==
    \A i \in CallIds :
        calls[i].op = "updateAttachmentData" =>
            /\ calls[i].state # "threw"
            /\ calls[i].req.sent /\ calls[i].nreq = 1
            /\ calls[i].req.url = RouteUrl(calls[i].op, calls[i].pathArgs)
            /\ calls[i].req.formData = calls[i].body
            /\ Finished(i) => calls[i].cb.n = 1

\* C26: search.quickSearch(keyword, cb) dispatches GET <baseUrl>/search with
\* the single query parameter cql, whose value is title ~ "<keyword>*" with
\* the keyword as the caller wrote it.  (The keyword is recorded as the
\* call's params.)
C26_QuickSearchCql ==
    \A i \in CallIds :
        (calls[i].op = "quickSearch" /\ calls[i].req.sent) =>
            /\ calls[i].req.method = "GET"
            /\ calls[i].req.url = <<Lit("https://x/wiki/rest/api"), Lit("/search")>>
            /\ calls[i].req.data = Undef
            /\ calls[i].params = Str("test") =>
                   calls[i].req.parameters = Obj("{cql:title ~ \"test*\"}")
            /\ calls[i].params = Str("a\"b") =>
                   calls[i].req.parameters = Obj("{cql:title ~ \"a\"b*\"}")
            /\ calls[i].params \in {Str("test"), Str("a\"b")}

\* a quick search for a keyword that holds a double quote was dispatched
\* and has completed
C26_Witness ==
    \E i \in CallIds :
        /\ calls[i].op = "quickSearch" /\ calls[i].params = Str("a\"b")
        /\ calls[i].req.parameters = Obj("{cql:title ~ \"a\"b*\"}")
        /\ calls[i].state = "done" /\ calls[i].cb.data = Obj("{id:123}")

(***************************************************************************)
(* Properties of optional arguments and of registration (SpecRoutes).      *)
(***************************************************************************)

\* null, undefined and the empty object
Empties == {Null, Undef, Obj("{}")}

SameUpToEmpty(x, y) == x = y \/ (x \in Empties /\ y \in Empties)

\* the call was given null or undefined for its bag or body
OmitsOptional(i) == calls[i].params = Null \/ calls[i].body = Null
                    \/ (calls[i].op = "getGroups" /\ calls[i].params = Undef)
                    \/ (calls[i].op = "convertTo" /\ calls[i].body = Undef)

\* C29: for a JSON-route operation, a call with null or undefined for the
\* query bag or the body dispatches the request that the same call with an
\* empty object dispatches, does not throw, and delivers the normalized
\* completion of its request.
C29_NullIsEmptyObject ==
    /\ \A i, j \in CallIds :
        (/\ calls[i].kind = "json" /\ calls[i].op = calls[j].op
         /\ calls[i].pathArgs = calls[j].pathArgs
         /\ SameUpToEmpty(calls[i].params, calls[j].params)
         /\ SameUpToEmpty(calls[i].body, calls[j].body))
            => calls[i].req = calls[j].req
    /\ \A i \in CallIds :
        (calls[i].kind = "json" /\ OmitsOptional(i)) =>
            /\ calls[i].req.sent
            /\ calls[i].state \in {"inflight", "done"}
            /\ calls[i].state = "done" => calls[i].cb = OwnResult(i)

\* getGroups(null, cb) has completed with 204 and an empty body, next to a
\* getGroups({}, cb) that dispatched the same request
C29_Witness ==
    /\ Len(calls) = 2
    /\ calls[1].op = "getGroups" /\ calls[1].params = Null
    /\ calls[2].op = "getGroups" /\ calls[2].params = Obj("{}")
    /\ calls[1].req = calls[2].req
    /\ calls[1].req.parameters = Obj("{}")
    /\ calls[1].state = "done" /\ calls[1].cb.err = NullErr
    /\ calls[1].cb.data.code = 204

\* C30: the method table holds at most one entry per name and never more
\* entries than calls were made, and a call leaves the entry of a name that
\* was registered before as it was: registering a name again writes the
\* same URL template and verb.
C30_RegistrationIdempotent ==
    /\ [](/\ \A m1, m2 \in client.methods : m1.name = m2.name => m1 = m2
          /\ Cardinality(client.methods) <= Len(calls))
    /\ [][\A m1 \in client.methods : \A m2 \in client'.methods :
              m1.name = m2.name => m1 = m2]_vars

\* getContentDescendants has been called twice with different ids and the
\* table holds its one entry, with the template unresolved
C30_Witness ==
    /\ Len(calls) = 2
    /\ calls[1].op = "getContentDescendants"
    /\ calls[2].op = "getContentDescendants"
    /\ calls[1].pathArgs # calls[2].pathArgs
    /\ client.methods =
           {[name |-> "getContentDescendantss",
             url |-> <<Lit("https://x/wiki/rest/api"), Lit("/content/"),
                       Ph("id"), Lit("/descendant")>>,
             method |-> "GET"]}

====
